---- MODULE Spec2Model ----
(***************************************************************************)
(* RepuestosApp backend (backend/app/main.py): the product catalog kept in *)
(* SQLite (tables repuestos and secuencias), the OEM sequence generator    *)
(* and the create / update / get handlers with their best-effort           *)
(* synchronisation with Contabilium.                                       *)
(*                                                                         *)
(* Every request opens its own connection (get_db_connection).  The        *)
(* sqlite3 module opens a transaction implicitly before the first          *)
(* UPDATE/INSERT of a connection and keeps it until commit(); SQLite lets  *)
(* one connection at a time hold the write lock, a second writer waits in  *)
(* the busy handler (sqlite3.connect timeout) until the lock is free.  A   *)
(* handler is modelled statement by statement, so that requests served by  *)
(* different workers interleave at every statement.                        *)
(*                                                                         *)
(* Text values (ean, oem, id_contabilium) are sequences of one-character   *)
(* strings; the empty sequence is the falsy value (None or "").            *)
(***************************************************************************)
EXTENDS Integers, Sequences, FiniteSets, TLC

\* ---------------------------------------------------------------- bounds
MaxSeq == 2          \* creates stop being accepted once the counter reaches it
MaxReqs == 3         \* create and update requests accepted in one run
FormatSpan == 40     \* the counters 0..FormatSpan are formatted, with the powers of ten
\* the requests in flight at the same time
Slots == {1, 2}

\* ------------------------------------------------------- text and numbers
OemWidth == 8

Empty == <<>>

DigitChars == <<"0", "1", "2", "3", "4", "5", "6", "7", "8", "9">>

\* str(n): a minus sign for n < 0, then the decimal digits, most
\* significant first
RECURSIVE Str(_)
Str(n) ==
    IF n < 0 THEN <<"-">> \o Str(0 - n)
    ELSE IF n < 10 THEN <<DigitChars[n + 1]>>
    ELSE Str(n \div 10) \o <<DigitChars[(n % 10) + 1]>>

\* zeros put in front of s up to w characters, never truncating
RECURSIVE PadLeft(_, _)
PadLeft(s, w) == IF Len(s) >= w THEN s ELSE PadLeft(<<"0">> \o s, w)

\* s.zfill(w): the zeros go after a leading sign
Zfill(s, w) ==
    IF Len(s) > 0 /\ s[1] \in {"+", "-"}
    THEN <<s[1]>> \o PadLeft(Tail(s), w - 1)
    ELSE PadLeft(s, w)

DigitVal(c) == CHOOSE d \in 0..9 : DigitChars[d + 1] = c

\* int(s) for an optional minus sign followed by decimal digits
RECURSIVE IntOf(_)
IntOf(s) ==
    IF Len(s) = 0 THEN 0
    ELSE IF s[1] = "-" THEN 0 - IntOf(Tail(s))
    ELSE 10 * IntOf(SubSeq(s, 1, Len(s) - 1)) + DigitVal(s[Len(s)])

\* the UPDATE stepping by two
NextVal_ByTwo(v) == v + 2

\* the UPDATE with the sign of the step wrong
NextVal_Decrement(v) == v - 1

\* the new value of ultimo_valor written by the UPDATE of generate_oem
NextVal(v) == v + 1

\* the code cut to its last 8 characters
FormatOem_Truncated(v) ==
    SubSeq(Zfill(Str(v), OemWidth), Len(Zfill(Str(v), OemWidth)) - OemWidth + 1,
           Len(Zfill(Str(v), OemWidth)))

\* str(row[0]).zfill(8)
FormatOem(v) == Zfill(Str(v), OemWidth)

\* --------------------------------------------------------- request inputs
NoneStr == "None"    \* ProductUpdate.descripcion left out
NoneNum == -1        \* ProductUpdate.precio / stock left out

\* the ean values a client sends: none, a free text, and a text that looks
\* like a generated code
ClientEans == {Empty, <<"A">>, FormatOem(2)}
PathEans == {<<"A">>, FormatOem(1)}

ProductCreate == [descripcion : {"a"}, precio : {1}, stock : {1}, ean : ClientEans]

ProductUpdate ==
    [descripcion : {NoneStr, "b"}, precio : {NoneNum, 2}, stock : {NoneNum, 0}]

NoUpdate == [descripcion |-> NoneStr, precio |-> NoneNum, stock |-> NoneNum]
NoCreate == [descripcion |-> NoneStr, precio |-> NoneNum, stock |-> NoneNum, ean |-> Empty]

\* the id values Contabilium answers with (data.get("id")); Empty is a falsy answer
RemoteIds == {Empty, <<"X">>}

\* ------------------------------------------------------------------ rows
\* a row of repuestos
Row(e, oem, descripcion, precio, stock, id) ==
    [ean |-> e, oem |-> oem, descripcion |-> descripcion, precio |-> precio,
     stock |-> stock, id_contabilium |-> id]

\* the answer built with ean and oem taken from each other's column
ProductOut_Swapped(row) ==
    [ean |-> row.oem, oem |-> row.ean, descripcion |-> row.descripcion,
     precio |-> row.precio, stock |-> row.stock,
     id_contabilium |-> row.id_contabilium]

\* ProductOut(ean=row["ean"], oem=row["oem"], ...)
ProductOut(row) ==
    [ean |-> row.ean, oem |-> row.oem, descripcion |-> row.descripcion,
     precio |-> row.precio, stock |-> row.stock,
     id_contabilium |-> row.id_contabilium]

NoBody ==
    [ean |-> Empty, oem |-> Empty, descripcion |-> NoneStr, precio |-> NoneNum,
     stock |-> NoneNum, id_contabilium |-> Empty]

\* the last step was on_startup finishing, which answers nobody
StartupDone == [slot |-> 0, op |-> "startup", status |-> 0, body |-> NoBody]

\* no answer was sent by the last step
NoResponse == [slot |-> 0, op |-> "none", status |-> 0, body |-> NoBody]

\* the answer of handler op to the request of slot r
Response(r, op, st, body) == [slot |-> r, op |-> op, status |-> st, body |-> body]

\* --------------------------------------------------------------- Contabilium
\* the environment of the process: is CONTABILIUM_EMAIL set, is
\* CONTABILIUM_APIKEY set
Credentials(email, api_key) == [email |-> email, api_key |-> api_key]

\* a guard that looks at the API key only
Configured_KeyOnly(c) == c.api_key

\* `if not email or not api_key: return` does not return
Configured(c) == c.email /\ c.api_key

\* a failed call sent once more
Attempts_Retry(c, out) == IF ~Configured(c) THEN 0 ELSE IF out = "failed" THEN 2 ELSE 1

\* the HTTP calls one call of create_product_in_contabilium or
\* update_product_in_contabilium sends: none without credentials, else one,
\* whatever its outcome
Attempts(c, out) == IF ~Configured(c) THEN 0 ELSE 1

\* -------------------------------------------------------------- database
\* ultimo_valor when secuencias has no row 'oem'
NoRow == -1

\* an INSERT OR REPLACE in the place of INSERT OR IGNORE
InsertOrIgnore_Replace(v) == 0

\* INSERT OR IGNORE INTO secuencias (nombre, ultimo_valor) VALUES ('oem', 0)
InsertOrIgnore(v) == IF v = NoRow THEN 0 ELSE v

\* a connection with no open transaction
NoTx == [open |-> FALSE, seq |-> 0, rep |-> {}]

VARIABLES
    secuencia,   \* committed secuencias.ultimo_valor of the row 'oem'
    repuestos,   \* committed table repuestos: the set of its rows
    tx,          \* per slot: the open transaction of its connection, if any
    pc,          \* per slot: the statement the handler is at
    product,     \* per slot: the ProductCreate body of create_product
    path,        \* per slot: the ean path parameter of update_product
    update,      \* per slot: the ProductUpdate body of update_product
    oem_code,    \* per slot: local oem_code of create_product
    ean,         \* per slot: local ean of create_product
    cont_id,     \* per slot: local cont_id of create_product
    remote,      \* per slot: how the Contabilium call of the request went
    calls,       \* per slot: the HTTP calls the request has sent to Contabilium
    response,    \* the answer a handler sent in the last step, if any
    creds,       \* which of CONTABILIUM_EMAIL and CONTABILIUM_APIKEY are set
    commitLog,   \* history: the oem of every committed create, in commit order
    issued,      \* history: the codes generate_oem has returned so far
    started      \* history: the create and update requests accepted so far

vars == <<secuencia, repuestos, tx, pc, product, path, update, oem_code,
          ean, cont_id, remote, calls, response, creds, commitLog, issued,
          started>>

\* init_db on a new file, then no request in flight
Fresh ==
    /\ secuencia = InsertOrIgnore(NoRow)
    /\ repuestos = {}
    /\ tx = [r \in Slots |-> NoTx]
    /\ pc = [r \in Slots |-> "idle"]
    /\ product = [r \in Slots |-> NoCreate]
    /\ path = [r \in Slots |-> Empty]
    /\ update = [r \in Slots |-> NoUpdate]
    /\ oem_code = [r \in Slots |-> Empty]
    /\ ean = [r \in Slots |-> Empty]
    /\ cont_id = [r \in Slots |-> Empty]
    /\ remote = [r \in Slots |-> "none"]
    /\ calls = [r \in Slots |-> 0]
    /\ response = NoResponse
    /\ commitLog = <<>>
    /\ issued = {}
    /\ started = 0

\* the process runs with both credentials or with none
Init ==
    /\ Fresh
    /\ creds \in {Credentials(TRUE, TRUE), Credentials(FALSE, FALSE)}

\* the process runs with any of the two credentials set or not
InitEnv ==
    /\ Fresh
    /\ creds \in {Credentials(e, k) : e \in BOOLEAN, k \in BOOLEAN}

\* ------------------------------------------------- SQLite, per statement
\* writers that do not exclude each other
CanWrite_Unlocked(r) == TRUE

\* the connection of slot r may write: no other connection holds the write
\* lock (has an open transaction); otherwise it waits in the busy handler
CanWrite(r) == \A q \in Slots \ {r} : ~tx[q].open

\* the implicit BEGIN of the sqlite3 module before an UPDATE or INSERT
Begin(r) ==
    IF tx[r].open THEN tx[r]
    ELSE [open |-> TRUE, seq |-> secuencia, rep |-> repuestos]

\* what the connection of slot r reads: its own open transaction, or the
\* committed database
View(r) ==
    IF tx[r].open THEN tx[r]
    ELSE [open |-> FALSE, seq |-> secuencia, rep |-> repuestos]

\* the lookup done on the wrong column
Select_ByOem(rep, e) == {row \in rep : row.oem = e}

\* the rows of SELECT ... FROM repuestos WHERE ean = ?
Select(rep, e) == {row \in rep : row.ean = e}

\* fetchone() of that SELECT is not None, for the connection of slot r
Exists(r, e) == Select(View(r).rep, e) # {}

\* fetchone() of that SELECT, when it is not None
FetchOne(r, e) == CHOOSE row \in Select(View(r).rep, e) : TRUE

\* the table declared without PRIMARY KEY on ean
Violates_NoPrimaryKey(rep, e, o) == \E row \in rep : row.oem = o

\* the constraints of CREATE TABLE repuestos: ean PRIMARY KEY, oem UNIQUE
Violates(rep, e, o) ==
    \/ \E row \in rep : row.ean = e
    \/ \E row \in rep : row.oem = o

\* an UPDATE that writes the column default where no stock was supplied
Updated_Nulling(rep, e, u) ==
    {IF row.ean # e THEN row
     ELSE [row EXCEPT
             !.descripcion = IF u.descripcion # NoneStr THEN u.descripcion ELSE @,
             !.precio = IF u.precio # NoneNum THEN u.precio ELSE @,
             !.stock = IF u.stock # NoneNum THEN u.stock ELSE 0] : row \in rep}

\* UPDATE repuestos SET <the supplied fields> WHERE ean = e
Updated(rep, e, u) ==
    {IF row.ean # e THEN row
     ELSE [row EXCEPT
             !.descripcion = IF u.descripcion # NoneStr THEN u.descripcion ELSE @,
             !.precio = IF u.precio # NoneNum THEN u.precio ELSE @,
             !.stock = IF u.stock # NoneNum THEN u.stock ELSE @] : row \in rep}

\* the UPDATE of id_contabilium without its WHERE clause
WithId_AllRows(rep, e, id) ==
    {[row EXCEPT !.id_contabilium = id] : row \in rep}

\* UPDATE repuestos SET id_contabilium = id WHERE ean = e
WithId(rep, e, id) ==
    {IF row.ean = e THEN [row EXCEPT !.id_contabilium = id] ELSE row : row \in rep}

\* a failed call answered with an error text instead of None
CreateInContabilium_ErrText(out, id) == IF out = "ok" THEN id ELSE <<"E">>

\* create_product_in_contabilium: None without credentials ("skipped") or
\* when the call raises ("failed"), else the id of the answer
CreateInContabilium(out, id) == IF out = "ok" THEN id ELSE Empty

\* the UPDATE issued whatever was supplied
HasFields_Always(u) == TRUE

\* `fields` of update_product is not empty
HasFields(u) == u.descripcion # NoneStr \/ u.precio # NoneNum \/ u.stock # NoneNum

\* the commit that keeps the rows and loses the counter UPDATE
Committed_CounterLost(r) == [seq |-> secuencia, rep |-> tx[r].rep]

\* the write not made durable at this point
Committed_NotYet(r) == [seq |-> secuencia, rep |-> repuestos]

\* conn.commit(): the open transaction of slot r becomes the database
Committed(r) == [seq |-> tx[r].seq, rep |-> tx[r].rep]

\* a handler may start in slot r
Free(r) == pc[r] = "idle"

\* create requests that have not committed yet
Pending == {r \in Slots : pc[r] \in {"check", "gen_update", "gen_select", "insert", "commit"}}

\* the locals of a handler that is not running
ClearLocals(r) ==
    /\ product' = [product EXCEPT ![r] = NoCreate]
    /\ path' = [path EXCEPT ![r] = Empty]
    /\ update' = [update EXCEPT ![r] = NoUpdate]
    /\ oem_code' = [oem_code EXCEPT ![r] = Empty]
    /\ ean' = [ean EXCEPT ![r] = Empty]
    /\ cont_id' = [cont_id EXCEPT ![r] = Empty]
    /\ remote' = [remote EXCEPT ![r] = "none"]
    /\ calls' = [calls EXCEPT ![r] = 0]

\* ----------------------------------------------------------- create_product
\* POST /api/productos arrives: `if not product.ean`
CreateStart(r, p) ==
    /\ Free(r)
    /\ secuencia + Cardinality(Pending) < MaxSeq
    /\ started < MaxReqs
    /\ started' = started + 1
    /\ product' = [product EXCEPT ![r] = p]
    /\ pc' = [pc EXCEPT ![r] = IF p.ean = Empty THEN "gen_update" ELSE "check"]
    /\ response' = NoResponse
    /\ UNCHANGED <<secuencia, repuestos, tx, path, update, oem_code, ean,
                   cont_id, remote, calls, creds, commitLog, issued>>

\* SELECT 1 FROM repuestos WHERE ean = ?; 400 when the row is there
CreateCheck(r) ==
    /\ pc[r] = "check"
    /\ IF Exists(r, product[r].ean)
       THEN /\ response' = Response(r, "create", 400, NoBody)
            /\ pc' = [pc EXCEPT ![r] = "idle"]
            /\ ClearLocals(r)
       ELSE /\ pc' = [pc EXCEPT ![r] = "gen_update"]
            /\ response' = NoResponse
            /\ UNCHANGED <<product, path, update, oem_code, ean,
                           cont_id, remote, calls>>
    /\ UNCHANGED <<secuencia, repuestos, tx, creds, commitLog, issued, started>>

\* generate_oem: UPDATE secuencias SET ultimo_valor = ultimo_valor + 1
GenUpdate(r) ==
    /\ pc[r] = "gen_update"
    /\ CanWrite(r)
    /\ tx' = [tx EXCEPT ![r] = [Begin(r) EXCEPT !.seq = NextVal(@)]]
    /\ pc' = [pc EXCEPT ![r] = "gen_select"]
    /\ response' = NoResponse
    /\ UNCHANGED <<secuencia, repuestos, product, path, update, oem_code, ean,
                   cont_id, remote, calls, creds, commitLog, issued, started>>

\* generate_oem: SELECT ultimo_valor, format it; then ean = oem_code or
\* ean = product.ean
GenSelect(r) ==
    /\ pc[r] = "gen_select"
    /\ oem_code' = [oem_code EXCEPT ![r] = FormatOem(View(r).seq)]
    /\ ean' = [ean EXCEPT ![r] =
                 IF product[r].ean = Empty THEN oem_code'[r] ELSE product[r].ean]
    /\ issued' = issued \cup {oem_code'[r]}
    /\ pc' = [pc EXCEPT ![r] = "insert"]
    /\ response' = NoResponse
    /\ UNCHANGED <<secuencia, repuestos, tx, product, path, update, cont_id,
                   remote, calls, creds, commitLog, started>>

\* INSERT INTO repuestos (ean, oem, descripcion, precio, stock); a violated
\* constraint raises sqlite3.IntegrityError, which nothing catches: the
\* client gets 500 and the transaction stays open until the connection is
\* finalized
Insert(r) ==
    /\ pc[r] = "insert"
    /\ CanWrite(r)
    /\ IF Violates(Begin(r).rep, ean[r], oem_code[r])
       THEN /\ response' = Response(r, "create", 500, NoBody)
            /\ pc' = [pc EXCEPT ![r] = "raised"]
            /\ tx' = [tx EXCEPT ![r] = Begin(r)]
       ELSE /\ tx' = [tx EXCEPT ![r] =
                        [Begin(r) EXCEPT !.rep =
                            @ \cup {Row(ean[r], oem_code[r], product[r].descripcion,
                                         product[r].precio, product[r].stock, Empty)}]]
            /\ pc' = [pc EXCEPT ![r] = "commit"]
            /\ response' = NoResponse
    /\ UNCHANGED <<secuencia, repuestos, product, path, update, oem_code, ean,
                   cont_id, remote, calls, creds, commitLog, issued, started>>

\* conn.commit() after the INSERT
Commit(r) ==
    /\ pc[r] = "commit"
    /\ tx[r].open
    /\ secuencia' = Committed(r).seq
    /\ repuestos' = Committed(r).rep
    /\ tx' = [tx EXCEPT ![r] = NoTx]
    /\ commitLog' = Append(commitLog, oem_code[r])
    /\ pc' = [pc EXCEPT ![r] = "remote"]
    /\ response' = NoResponse
    /\ UNCHANGED <<product, path, update, oem_code, ean, cont_id, remote, calls,
                   creds, issued, started>>

\* await create_product_in_contabilium(new_product): None without
\* credentials, None when the call raises, else data.get("id"); then
\* `if cont_id`
CreateRemote(r) ==
    /\ pc[r] = "remote"
    /\ \E out \in {"skipped", "failed", "ok"}, id \in RemoteIds :
          /\ (out = "skipped") = ~Configured(creds)
          /\ out # "ok" => id = Empty
          /\ remote' = [remote EXCEPT ![r] = out]
          /\ calls' = [calls EXCEPT ![r] = @ + Attempts(creds, out)]
          /\ cont_id' = [cont_id EXCEPT ![r] = CreateInContabilium(out, id)]
          /\ pc' = [pc EXCEPT ![r] = IF cont_id'[r] # Empty THEN "set_id" ELSE "close"]
    /\ response' = NoResponse
    /\ UNCHANGED <<secuencia, repuestos, tx, product, path, update, oem_code,
                   ean, creds, commitLog, issued, started>>

\* UPDATE repuestos SET id_contabilium = ? WHERE ean = ?
SetId(r) ==
    /\ pc[r] = "set_id"
    /\ CanWrite(r)
    /\ tx' = [tx EXCEPT ![r] = [Begin(r) EXCEPT !.rep = WithId(@, ean[r], cont_id[r])]]
    /\ pc' = [pc EXCEPT ![r] = "set_id_commit"]
    /\ response' = NoResponse
    /\ UNCHANGED <<secuencia, repuestos, product, path, update, oem_code, ean,
                   cont_id, remote, calls, creds, commitLog, issued, started>>

\* conn.commit() after the UPDATE of id_contabilium
SetIdCommit(r) ==
    /\ pc[r] = "set_id_commit"
    /\ tx[r].open
    /\ secuencia' = Committed(r).seq
    /\ repuestos' = Committed(r).rep
    /\ tx' = [tx EXCEPT ![r] = NoTx]
    /\ pc' = [pc EXCEPT ![r] = "close"]
    /\ response' = NoResponse
    /\ UNCHANGED <<product, path, update, oem_code, ean, cont_id, remote, calls,
                   creds, commitLog, issued, started>>

\* new_product with id_contabilium = cont_id when it was set, as built by
\* create_product
NewProduct(r) ==
    ProductOut(Row(ean[r], oem_code[r], product[r].descripcion,
                   product[r].precio, product[r].stock, cont_id[r]))

\* conn.close(); return new_product (201)
CreateReturn(r) ==
    /\ pc[r] = "close"
    /\ response' = Response(r, "create", 201, NewProduct(r))
    /\ pc' = [pc EXCEPT ![r] = "idle"]
    /\ ClearLocals(r)
    /\ UNCHANGED <<secuencia, repuestos, tx, creds, commitLog, issued, started>>

\* the connection of a handler that raised is finalized: SQLite rolls the
\* open transaction back
Finalize(r) ==
    /\ pc[r] = "raised"
    /\ tx' = [tx EXCEPT ![r] = NoTx]
    /\ pc' = [pc EXCEPT ![r] = "idle"]
    /\ ClearLocals(r)
    /\ response' = NoResponse
    /\ UNCHANGED <<secuencia, repuestos, creds, commitLog, issued, started>>

\* ----------------------------------------------------------- update_product
\* PATCH /api/productos/{ean} arrives
UpdateStart(r, e, u) ==
    /\ Free(r)
    /\ started < MaxReqs
    /\ started' = started + 1
    /\ path' = [path EXCEPT ![r] = e]
    /\ update' = [update EXCEPT ![r] = u]
    /\ pc' = [pc EXCEPT ![r] = "u_select"]
    /\ response' = NoResponse
    /\ UNCHANGED <<secuencia, repuestos, tx, product, oem_code, ean, cont_id,
                   remote, calls, creds, commitLog, issued>>

\* SELECT * FROM repuestos WHERE ean = ?; 404 when there is no row; then
\* `fields` is built from the supplied values
UpdateSelect(r) ==
    /\ pc[r] = "u_select"
    /\ IF ~Exists(r, path[r])
       THEN /\ response' = Response(r, "update", 404, NoBody)
            /\ pc' = [pc EXCEPT ![r] = "idle"]
            /\ ClearLocals(r)
       ELSE /\ pc' = [pc EXCEPT ![r] =
                        IF HasFields(update[r]) THEN "u_update" ELSE "u_remote"]
            /\ response' = NoResponse
            /\ UNCHANGED <<product, path, update, oem_code, ean,
                           cont_id, remote, calls>>
    /\ UNCHANGED <<secuencia, repuestos, tx, creds, commitLog, issued, started>>

\* UPDATE repuestos SET <fields> WHERE ean = ?
UpdateWrite(r) ==
    /\ pc[r] = "u_update"
    /\ CanWrite(r)
    /\ tx' = [tx EXCEPT ![r] = [Begin(r) EXCEPT !.rep = Updated(@, path[r], update[r])]]
    /\ pc' = [pc EXCEPT ![r] = "u_commit"]
    /\ response' = NoResponse
    /\ UNCHANGED <<secuencia, repuestos, product, path, update, oem_code, ean,
                   cont_id, remote, calls, creds, commitLog, issued, started>>

\* conn.commit() after the UPDATE
UpdateCommit(r) ==
    /\ pc[r] = "u_commit"
    /\ tx[r].open
    /\ secuencia' = Committed(r).seq
    /\ repuestos' = Committed(r).rep
    /\ tx' = [tx EXCEPT ![r] = NoTx]
    /\ pc' = [pc EXCEPT ![r] = "u_remote"]
    /\ response' = NoResponse
    /\ UNCHANGED <<product, path, update, oem_code, ean, cont_id, remote, calls,
                   creds, commitLog, issued, started>>

\* await update_product_in_contabilium(ean, update): nothing without
\* credentials, else one PATCH whose failure is only printed
UpdateRemote(r) ==
    /\ pc[r] = "u_remote"
    /\ \E out \in {"skipped", "failed", "ok"} :
          /\ (out = "skipped") = ~Configured(creds)
          /\ remote' = [remote EXCEPT ![r] = out]
          /\ calls' = [calls EXCEPT ![r] = @ + Attempts(creds, out)]
    /\ pc' = [pc EXCEPT ![r] = "u_reread"]
    /\ response' = NoResponse
    /\ UNCHANGED <<secuencia, repuestos, tx, product, path, update, oem_code,
                   ean, cont_id, creds, commitLog, issued, started>>

\* SELECT * FROM repuestos WHERE ean = ?; conn.close(); return the row (200);
\* subscripting a missing row raises TypeError (500)
UpdateReturn(r) ==
    /\ pc[r] = "u_reread"
    /\ response' = IF Exists(r, path[r])
                   THEN Response(r, "update", 200, ProductOut(FetchOne(r, path[r])))
                   ELSE Response(r, "update", 500, NoBody)
    /\ pc' = [pc EXCEPT ![r] = "idle"]
    /\ ClearLocals(r)
    /\ UNCHANGED <<secuencia, repuestos, tx, creds, commitLog, issued, started>>

\* -------------------------------------------------------------- get_product
\* GET /api/productos/{ean} arrives
GetStart(r, e) ==
    /\ Free(r)
    /\ path' = [path EXCEPT ![r] = e]
    /\ pc' = [pc EXCEPT ![r] = "g_select"]
    /\ response' = NoResponse
    /\ UNCHANGED <<secuencia, repuestos, tx, product, update, oem_code, ean,
                   cont_id, remote, calls, creds, commitLog, issued, started>>

\* SELECT * FROM repuestos WHERE ean = ?; conn.close(); 404 when there is no
\* row, else the row (200)
GetProduct(r) ==
    /\ pc[r] = "g_select"
    /\ response' = IF Exists(r, path[r])
                   THEN Response(r, "get", 200, ProductOut(FetchOne(r, path[r])))
                   ELSE Response(r, "get", 404, NoBody)
    /\ pc' = [pc EXCEPT ![r] = "idle"]
    /\ ClearLocals(r)
    /\ UNCHANGED <<secuencia, repuestos, tx, creds, commitLog, issued, started>>

\* ------------------------------------------------------------------ init_db
\* on_startup of a worker that starts on the existing file: the two CREATE
\* TABLE IF NOT EXISTS find their tables, the INSERT OR IGNORE waits for the
\* write lock and is committed at once
InitDb ==
    /\ \A r \in Slots : ~tx[r].open
    /\ secuencia' = InsertOrIgnore(secuencia)
    /\ repuestos' = repuestos
    /\ response' = StartupDone
    /\ UNCHANGED <<tx, pc, product, path, update, oem_code, ean, cont_id, remote,
                   calls, creds, commitLog, issued, started>>

\* ---------------------------------------------------------------------------
Next ==
    \/ InitDb
    \/ \E r \in Slots, p \in ProductCreate : CreateStart(r, p)
    \/ \E r \in Slots : CreateCheck(r)
    \/ \E r \in Slots : GenUpdate(r)
    \/ \E r \in Slots : GenSelect(r)
    \/ \E r \in Slots : Insert(r)
    \/ \E r \in Slots : Commit(r)
    \/ \E r \in Slots : CreateRemote(r)
    \/ \E r \in Slots : SetId(r)
    \/ \E r \in Slots : SetIdCommit(r)
    \/ \E r \in Slots : CreateReturn(r)
    \/ \E r \in Slots : Finalize(r)
    \/ \E r \in Slots, e \in PathEans, u \in ProductUpdate : UpdateStart(r, e, u)
    \/ \E r \in Slots : UpdateSelect(r)
    \/ \E r \in Slots : UpdateWrite(r)
    \/ \E r \in Slots : UpdateCommit(r)
    \/ \E r \in Slots : UpdateRemote(r)
    \/ \E r \in Slots : UpdateReturn(r)
    \/ \E r \in Slots, e \in PathEans : GetStart(r, e)
    \/ \E r \in Slots : GetProduct(r)

Spec == Init /\ [][Next]_vars

\* the same handlers, under every setting of the two credentials
SpecEnv == InitEnv /\ [][Next]_vars

\* ------------------------------------------------ generate_oem on its own
\* the values of secuencias.ultimo_valor that generate_oem is run on: the
\* small ones, and those around each change of the number of digits
FormatInputs ==
    (0 .. FormatSpan) \cup {10 ^ k - d : k \in 1 .. 9, d \in 1 .. 2}

\* a store whose counter stands at one of these values, and one create
\* without ean that is about to call generate_oem
InitFormat ==
    /\ secuencia \in FormatInputs
    /\ repuestos = {}
    /\ tx = [r \in Slots |-> NoTx]
    /\ pc = [r \in Slots |-> IF r = 1 THEN "gen_update" ELSE "idle"]
    /\ product = [r \in Slots |->
                    IF r = 1 THEN [descripcion |-> "a", precio |-> 1, stock |-> 1,
                                   ean |-> Empty]
                    ELSE NoCreate]
    /\ path = [r \in Slots |-> Empty]
    /\ update = [r \in Slots |-> NoUpdate]
    /\ oem_code = [r \in Slots |-> Empty]
    /\ ean = [r \in Slots |-> Empty]
    /\ cont_id = [r \in Slots |-> Empty]
    /\ remote = [r \in Slots |-> "none"]
    /\ calls = [r \in Slots |-> 0]
    /\ response = NoResponse
    /\ creds = Credentials(FALSE, FALSE)
    /\ commitLog = <<>>
    /\ issued = {}
    /\ started = 1

\* the two statements of generate_oem
NextFormat == \E r \in Slots : GenUpdate(r) \/ GenSelect(r)

SpecFormat == InitFormat /\ [][NextFormat]_vars

\* ---------------------------------------------------------------------------
\* the create requests that hold a generated code
Holders == {r \in Slots : oem_code[r] # Empty}

\* C1: the internal codes of the committed creates grow strictly, in integer
\* value, in the order of their commits, and the code a create returns with
\* 201 is the one it committed, so every successful create returns a code
\* greater than those of the creates committed before it.
C1_SequenceMonotonic ==
    /\ \A i, j \in 1..Len(commitLog) :
          i < j => IntOf(commitLog[i]) < IntOf(commitLog[j])
    /\ \A r \in Slots :
          pc[r] \in {"remote", "set_id", "set_id_commit", "close"} =>
             /\ Len(commitLog) > 0
             /\ \E i \in 1..Len(commitLog) :
                   /\ commitLog[i] = oem_code[r]
                   /\ \A j \in 1..(i - 1) :
                         IntOf(commitLog[j]) < IntOf(NewProduct(r).oem)

\* two creates have committed, one with a client ean and one without, and the
\* second is about to return its code
C1_Witness ==
    /\ Len(commitLog) = 2
    /\ \E r \in Slots : pc[r] = "close" /\ oem_code[r] = commitLog[2]

UniqueKeys(rep) ==
    \A x, y \in rep : x # y => (x.ean # y.ean /\ x.oem # y.oem)

\* C3: in every reachable state no two stored products share their ean and
\* no two share their oem, in the committed table and in the table as any
\* open transaction sees it; of two creates with the same client ean that
\* both passed the exists check, at most one is stored.
C3_UniqueCodes ==
    /\ UniqueKeys(repuestos)
    /\ \A r \in Slots : UniqueKeys(View(r).rep)

\* a create with a client ean passed the exists check, and its INSERT was
\* refused because a concurrent create stored that ean first
C3_WitnessRace ==
    \E r \in Slots :
        /\ pc[r] = "raised"
        /\ product[r].ean # Empty
        /\ \E row \in repuestos : row.ean = product[r].ean

\* C4: a create whose client ean is stored when its exists check runs is
\* answered 400 at that check, and that step changes neither the counter,
\* nor any stored product, nor opens a transaction.
C4_DuplicateEanRejected ==
    [][\A r \in Slots :
          (/\ pc[r] = "check"
           /\ pc'[r] # "check"
           /\ \E row \in repuestos : row.ean = product[r].ean)
          => (/\ response' = Response(r, "create", 400, NoBody)
              /\ pc'[r] = "idle"
              /\ secuencia' = secuencia
              /\ repuestos' = repuestos
              /\ tx' = tx
              /\ commitLog' = commitLog)]_vars

\* a create was just answered 400 while products are stored
C4_Witness ==
    /\ response.status = 400
    /\ repuestos # {}
    /\ secuencia = Len(commitLog)

\* C5 as claimed: a create that sends no ean never fails.
C5_CreateWithoutEanSucceeds ==
    \A r \in Slots : product[r].ean = Empty => pc[r] # "raised"

\* the statements of update_product
UpdatePcs == {"u_select", "u_update", "u_commit", "u_remote", "u_reread"}

\* new is old with exactly the supplied fields of u replaced
Patched(old, new, u) ==
    /\ new.ean = old.ean
    /\ new.oem = old.oem
    /\ new.id_contabilium = old.id_contabilium
    /\ new.descripcion = IF u.descripcion = NoneStr THEN old.descripcion ELSE u.descripcion
    /\ new.precio = IF u.precio = NoneNum THEN old.precio ELSE u.precio
    /\ new.stock = IF u.stock = NoneNum THEN old.stock ELSE u.stock

\* C6: the commit of an update replaces, in the stored row of the addressed
\* product, exactly the supplied fields by the supplied values; its other
\* fields, its ean, oem and id_contabilium, every other row and the counter
\* stay as they were, and no other statement of an update changes the
\* committed tables.
C6_PartialUpdateFrame ==
    [][\A r \in Slots :
          (pc[r] \in UpdatePcs /\ pc'[r] # pc[r]) =>
             /\ secuencia' = secuencia
             /\ commitLog' = commitLog
             /\ IF pc[r] = "u_commit"
                THEN /\ Cardinality(repuestos') = Cardinality(repuestos)
                     /\ \A old \in repuestos :
                           IF old.ean = path[r]
                           THEN \E new \in repuestos' : Patched(old, new, update[r])
                           ELSE old \in repuestos'
                ELSE repuestos' = repuestos]_vars

\* two products are stored and an update that supplied only descripcion has
\* committed: the row has the new descripcion and the stock and precio it
\* was created with
C6_Witness ==
    \E r \in Slots :
        /\ pc[r] = "u_remote"
        /\ update[r] = [descripcion |-> "b", precio |-> NoneNum, stock |-> NoneNum]
        /\ Cardinality(repuestos) = 2
        /\ \E row \in repuestos :
              /\ row.ean = path[r]
              /\ row.descripcion = "b"
              /\ row.stock = 1
              /\ row.precio = 1

\* C7: a request whose Contabilium call failed has its local write committed
\* and no transaction open, a create has kept cont_id empty and its stored
\* row has no id_contabilium; the next step of that request answers 201
\* (create, with id_contabilium None) or 200 (update) and changes nothing
\* stored.
C7_LedgerFailureAbsorbed ==
    /\ [](\A r \in Slots :
             remote[r] = "failed" =>
                /\ ~tx[r].open
                /\ pc[r] \in {"close", "u_reread"}
                /\ pc[r] = "close" =>
                      /\ cont_id[r] = Empty
                      /\ \E row \in repuestos :
                            /\ row.ean = ean[r]
                            /\ row.oem = oem_code[r]
                            /\ row.id_contabilium = Empty
                /\ pc[r] = "u_reread" => \E row \in repuestos : row.ean = path[r])
    /\ [][\A r \in Slots :
             (remote[r] = "failed" /\ pc'[r] # pc[r]) =>
                /\ response'.slot = r
                /\ response'.status = IF pc[r] = "close" THEN 201 ELSE 200
                /\ pc[r] = "close" => response'.body.id_contabilium = Empty
                /\ response'.body.ean = IF pc[r] = "close" THEN ean[r] ELSE path[r]
                /\ repuestos' = repuestos
                /\ secuencia' = secuencia]_vars

\* the Contabilium call of a create and that of an update have both failed
C7_Witness ==
    \E r, q \in Slots :
        /\ remote[r] = "failed" /\ pc[r] = "close"
        /\ remote[q] = "failed" /\ pc[q] = "u_reread"
        /\ HasFields(update[q])

\* C8: when the Contabilium call of a request starts, its local write is
\* committed (no transaction open; for a create the row is in the committed
\* table, where every other connection reads it); a create or update answers
\* only after its Contabilium call has returned, and an id that call
\* returned is stored and answered.
C8_CommitThenSyncThenResponse ==
    /\ [](\A r \in Slots :
             /\ pc[r] \in {"remote", "u_remote"} => ~tx[r].open
             /\ pc[r] \in {"remote", "set_id", "set_id_commit", "close"} =>
                   /\ \E row \in repuestos : row.ean = ean[r] /\ row.oem = oem_code[r]
                   /\ \A q \in Slots \ {r} : \E row \in View(q).rep : row.ean = ean[r])
    /\ [][\A r \in Slots :
             (response'.slot = r /\ response'.op \in {"create", "update"}
                /\ response'.status \in {200, 201}) =>
                /\ pc[r] \in {"close", "u_reread"}
                /\ remote[r] # "none"
                /\ ~tx[r].open
                /\ (pc[r] = "close" /\ cont_id[r] # Empty) =>
                      /\ response'.body.id_contabilium = cont_id[r]
                      /\ \E row \in repuestos :
                            row.ean = ean[r] /\ row.id_contabilium = cont_id[r]]_vars

\* a create is suspended in its Contabilium call while another request looks
\* the created product up
C8_Witness ==
    \E r, q \in Slots :
        /\ r # q
        /\ pc[r] = "remote"
        /\ pc[q] \in {"g_select", "u_select"}
        /\ path[q] = ean[r]

\* C9: a get answers 200 with the stored row of the requested ean when there
\* is one and 404 otherwise, and changes no table and opens no transaction;
\* the row a create commits carries the created fields, a create answers 201
\* with the ean and oem of a stored row, and a stored ean stays stored with
\* its oem, so a get of a created product finds it.
C9_GetReflectsCatalog ==
    /\ [][\A r \in Slots :
             (pc[r] = "g_select" /\ pc'[r] # "g_select") =>
                /\ response'.slot = r
                /\ response'.op = "get"
                /\ IF \E row \in repuestos : row.ean = path[r]
                   THEN /\ response'.status = 200
                        /\ response'.body \in repuestos
                        /\ response'.body.ean = path[r]
                   ELSE response' = Response(r, "get", 404, NoBody)
                /\ secuencia' = secuencia
                /\ repuestos' = repuestos
                /\ tx' = tx
                /\ commitLog' = commitLog]_vars
    /\ [][\A r \in Slots :
             (pc[r] = "commit" /\ pc'[r] = "remote") =>
                Row(ean[r], oem_code[r], product[r].descripcion,
                    product[r].precio, product[r].stock, Empty) \in repuestos']_vars
    /\ [][\A row \in repuestos :
             \E new \in repuestos' : new.ean = row.ean /\ new.oem = row.oem]_vars
    /\ [](response.status = 201 =>
             \E row \in repuestos :
                /\ row.ean = response.body.ean
                /\ row.oem = response.body.oem
                /\ row.id_contabilium = response.body.id_contabilium)

\* a get has just answered 200 with a product that was created with a
\* client ean
C9_Witness ==
    /\ response.op = "get"
    /\ response.status = 200
    /\ response.body.ean = <<"A">>
    /\ response.body.oem = FormatOem(1)
    /\ response.body \in repuestos

\* C10: an update that supplies no field issues no UPDATE and no commit:
\* every one of its steps leaves the stored products, the counter and the
\* transactions as they are, and it answers 200 with the row as it is
\* stored; repeating it therefore gives the same state and the same answer.
C10_NoFieldPatchIdempotent ==
    [][\A r \in Slots :
          (pc[r] \in UpdatePcs /\ update[r] = NoUpdate /\ pc'[r] # pc[r]) =>
             /\ repuestos' = repuestos
             /\ secuencia' = secuencia
             /\ tx' = tx
             /\ pc[r] \notin {"u_update", "u_commit"}
             /\ pc[r] = "u_reread" =>
                   /\ response'.status = 200
                   /\ response'.body \in repuestos
                   /\ response'.body.ean = path[r]]_vars

\* a no-field update of a stored product went past its Contabilium call and
\* is about to answer
C10_Witness ==
    \E r \in Slots :
        /\ pc[r] = "u_reread"
        /\ update[r] = NoUpdate
        /\ remote[r] # "none"
        /\ \E row \in repuestos : row.ean = path[r]

\* C11 as claimed: the committed counter never decreases, and a code that one
\* call of generate_oem returned is never returned by a later call.
C11_CounterNeverReissues ==
    [][/\ secuencia' >= secuencia
       /\ \A r \in Slots :
             (pc[r] = "gen_select" /\ pc'[r] = "insert") =>
                oem_code'[r] \notin issued]_vars

\* C12: an update addressed to an ean that is not stored when its SELECT runs
\* is answered 404 at that step; the step changes no stored product, not the
\* counter, opens no transaction, and the request has sent and sends no call
\* to Contabilium.
C12_UpdateMissingIs404 ==
    [][\A r \in Slots :
          (/\ pc[r] = "u_select"
           /\ pc'[r] # "u_select"
           /\ ~ \E row \in repuestos : row.ean = path[r])
          => (/\ response' = Response(r, "update", 404, NoBody)
              /\ pc'[r] = "idle"
              /\ repuestos' = repuestos
              /\ secuencia' = secuencia
              /\ tx' = tx
              /\ calls[r] = 0
              /\ calls'[r] = 0
              /\ remote'[r] = "none")]_vars

\* an update was just answered 404 while another product is stored
C12_Witness ==
    /\ response.op = "update"
    /\ response.status = 404
    /\ repuestos # {}

\* one of the two credentials is missing
Unconfigured == ~creds.email \/ ~creds.api_key

\* C13: when CONTABILIUM_EMAIL or CONTABILIUM_APIKEY is missing, no request
\* sends a call to Contabilium, no cont_id and no stored id_contabilium is
\* ever set, and a create or update that reached its synchronisation step
\* goes on to answer 201 / 200 with the stored tables untouched by that step.
C13_NoCredentialsNoCall ==
    /\ [](Unconfigured =>
             /\ \A r \in Slots :
                   /\ calls[r] = 0
                   /\ remote[r] \in {"none", "skipped"}
                   /\ cont_id[r] = Empty
                   /\ pc[r] \notin {"set_id", "set_id_commit"}
             /\ \A row \in repuestos : row.id_contabilium = Empty
             /\ response.body.id_contabilium = Empty)
    /\ [][Unconfigured =>
             \A r \in Slots :
                /\ (pc[r] \in {"remote", "u_remote"} /\ pc'[r] # pc[r]) =>
                      /\ pc'[r] = IF pc[r] = "remote" THEN "close" ELSE "u_reread"
                      /\ remote'[r] = "skipped"
                      /\ repuestos' = repuestos
                      /\ secuencia' = secuencia
                /\ (pc[r] \in {"close", "u_reread"} /\ pc'[r] # pc[r]) =>
                      /\ response'.slot = r
                      /\ response'.status = IF pc[r] = "close" THEN 201 ELSE 200]_vars

\* only the e-mail is set; a create and an update have both skipped their
\* call and are about to answer
C13_Witness ==
    /\ creds.email
    /\ ~creds.api_key
    /\ \E r, q \in Slots :
          /\ pc[r] = "close" /\ remote[r] = "skipped"
          /\ pc[q] = "u_reread" /\ remote[q] = "skipped"

\* C14: the commit of a create, with or without a client ean, advances the
\* committed counter by exactly 1 and stores the product with an oem of 8
\* characters whose integer value is the new counter value; no other step
\* changes the counter, and the oem answered with 201 is that stored oem.
C14_CreateConsumesOneValue ==
    /\ [][\A r \in Slots :
             (pc[r] = "commit" /\ pc'[r] = "remote") =>
                /\ secuencia' = secuencia + 1
                /\ IntOf(oem_code[r]) = secuencia'
                /\ Len(oem_code[r]) = 8
                /\ \E row \in repuestos' \ repuestos :
                      row.ean = ean[r] /\ row.oem = oem_code[r]]_vars
    /\ [][secuencia' # secuencia =>
             \E r \in Slots : pc[r] = "commit" /\ pc'[r] = "remote"]_vars
    /\ [](response.status = 201 =>
             /\ response.body.oem \in {row.oem : row \in repuestos}
             /\ IntOf(response.body.oem) \in 1..secuencia)

\* two creates have committed, one with a client ean and one without, and
\* the counter is 2
C14_Witness ==
    /\ secuencia = 2
    /\ Len(commitLog) = 2
    /\ \E x, y \in repuestos : x.ean = x.oem /\ y.ean # y.oem

\* C15: an id returned by create_product_in_contabilium is stored on the
\* product before the create answers and is the id_contabilium of the 201
\* body; a stored id_contabilium changes only at the commit of the create
\* whose call returned that id for that product, and a request holds an id
\* only after its one call answered.
C15_ExternalIdReconciled ==
    /\ [](\A r \in Slots :
             /\ cont_id[r] # Empty => (remote[r] = "ok" /\ calls[r] = 1)
             /\ (pc[r] = "close" /\ cont_id[r] # Empty) =>
                   \E row \in repuestos :
                      row.ean = ean[r] /\ row.id_contabilium = cont_id[r])
    /\ [][\A r \in Slots :
             /\ (pc[r] = "remote" /\ cont_id'[r] # Empty) => pc'[r] = "set_id"
             /\ (pc[r] = "close" /\ pc'[r] = "idle") =>
                   response'.body.id_contabilium = cont_id[r]]_vars
    /\ [][\A row \in repuestos' :
             (/\ row.id_contabilium # Empty
              /\ ~ \E was \in repuestos :
                      /\ was.ean = row.ean
                      /\ was.id_contabilium = row.id_contabilium) =>
                \E r \in Slots :
                   /\ pc[r] = "set_id_commit"
                   /\ pc'[r] = "close"
                   /\ remote[r] = "ok"
                   /\ row.ean = ean[r]
                   /\ row.id_contabilium = cont_id[r]
                   /\ \E old \in repuestos :
                         /\ old.ean = row.ean
                         /\ old.id_contabilium = Empty
                         /\ row = [old EXCEPT !.id_contabilium = cont_id[r]]]_vars

\* a create is answered with the id its call returned, the product carries
\* it, and another product stored without an id keeps none
C15_Witness ==
    /\ response.op = "create"
    /\ response.status = 201
    /\ response.body.id_contabilium # Empty
    /\ \E x, y \in repuestos :
          /\ x.ean = response.body.ean
          /\ x.id_contabilium = response.body.id_contabilium
          /\ y.id_contabilium = Empty

\* C16: a request sends at most one call to Contabilium, and only at its
\* synchronisation step; a call that failed moves the request on to its
\* answer with that one call made; a create answered 400 or 500 has sent none.
C16_AtMostOneCall ==
    /\ [](\A r \in Slots :
             /\ calls[r] <= 1
             /\ pc[r] \notin {"set_id", "set_id_commit", "close", "u_reread"} =>
                   calls[r] = 0
             /\ remote[r] = "failed" =>
                   (calls[r] = 1 /\ pc[r] \in {"close", "u_reread"}))
    /\ [][\A r \in Slots :
             /\ calls'[r] # calls[r] =>
                   \/ pc[r] \in {"remote", "u_remote"} /\ calls'[r] = calls[r] + 1
                   \/ pc'[r] = "idle" /\ calls'[r] = 0
             /\ (response'.slot = r /\ response'.status \in {400, 500}) =>
                   (calls[r] = 0 /\ calls'[r] = 0)]_vars

\* a create was just rejected as a duplicate while another create, whose one
\* call failed, is about to answer
C16_Witness ==
    /\ response.op = "create"
    /\ response.status = 400
    /\ \E r \in Slots : pc[r] = "close" /\ remote[r] = "failed" /\ calls[r] = 1

\* C18: init_db run on an initialized store leaves the counter and every
\* stored product as they are; it writes 0 only when the 'oem' row is absent.
C18_InitDbIdempotent ==
    /\ [][response'.op = "startup" =>
             (secuencia' = secuencia /\ repuestos' = repuestos)]_vars
    /\ [](InsertOrIgnore(NoRow) = 0)

\* init_db has just run on a store with two products and the counter at 2
C18_Witness ==
    /\ response.op = "startup"
    /\ secuencia = 2
    /\ Cardinality(repuestos) = 2

\* C20: the oem of every stored product is a number from 1 to the committed
\* counter, and the code generate_oem returns is the oem of no stored product.
C20_CounterBoundsCatalog ==
    /\ [](\A row \in repuestos :
             1 <= IntOf(row.oem) /\ IntOf(row.oem) <= secuencia)
    /\ [][\A r \in Slots :
             (pc[r] = "gen_select" /\ pc'[r] = "insert") =>
                /\ IntOf(oem_code'[r]) > secuencia
                /\ oem_code'[r] \notin {row.oem : row \in repuestos'}]_vars

\* a product is stored and generate_oem has just returned the next code
C20_Witness ==
    /\ repuestos # {}
    /\ \E r \in Slots : pc[r] = "insert" /\ IntOf(oem_code[r]) = secuencia + 1

\* the columns named in `fields` of update_product for the body u
Fields(u) ==
    {f \in {"descripcion", "precio", "stock"} :
        \/ f = "descripcion" /\ u.descripcion # NoneStr
        \/ f = "precio" /\ u.precio # NoneNum
        \/ f = "stock" /\ u.stock # NoneNum}

\* row carries the values that u supplies
Carries(row, u) ==
    /\ u.descripcion # NoneStr => row.descripcion = u.descripcion
    /\ u.precio # NoneNum => row.precio = u.precio
    /\ u.stock # NoneNum => row.stock = u.stock

\* two updates of one product that supply disjoint, non-empty sets of fields
Disjoint(r, q) ==
    /\ r # q
    /\ pc[r] \in UpdatePcs
    /\ pc[q] \in UpdatePcs
    /\ path[r] = path[q]
    /\ Fields(update[r]) # {}
    /\ Fields(update[q]) # {}
    /\ Fields(update[r]) \cap Fields(update[q]) = {}

\* C19: when two updates of one product with disjoint fields have both
\* committed, in whatever order their statements ran, the stored row carries
\* the values of both; and the one that answers while the other is still in
\* its call or its re-read answers with both.
C19_NoLostUpdate ==
    /\ [](\A r, q \in Slots :
             (/\ Disjoint(r, q)
              /\ pc[r] \in {"u_remote", "u_reread"}
              /\ pc[q] \in {"u_remote", "u_reread"}) =>
                \E row \in repuestos :
                   /\ row.ean = path[r]
                   /\ Carries(row, update[r])
                   /\ Carries(row, update[q]))
    /\ [][\A r, q \in Slots :
             (/\ Disjoint(r, q)
              /\ pc[r] = "u_reread"
              /\ pc'[r] = "idle"
              /\ pc[q] \in {"u_remote", "u_reread"}) =>
                /\ response'.status = 200
                /\ Carries(response'.body, update[r])
                /\ Carries(response'.body, update[q])]_vars

\* one update is suspended in its call, the other one, which started before
\* that one committed, has committed too and is about to answer
C19_Witness ==
    \E r, q \in Slots :
       /\ Disjoint(r, q)
       /\ pc[r] = "u_remote"
       /\ pc[q] = "u_reread"
       /\ \E row \in repuestos :
             row.ean = path[r] /\ Carries(row, update[r]) /\ Carries(row, update[q])

\* C17: the code generate_oem returns for the counter value n is the decimal
\* digits of n, with zeros in front up to 8 characters when n has fewer
\* ("00000001" for n = 1) and all of them, none cut, when n has more than 8;
\* its integer value is n, so no other counter value gives the same code.
C17_CodeFormat ==
    \A r \in Slots :
       pc[r] = "insert" =>
          /\ \A i \in 1 .. Len(oem_code[r]) :
                \E d \in 0 .. 9 : oem_code[r][i] = DigitChars[d + 1]
          /\ IntOf(oem_code[r]) = tx[r].seq
          /\ tx[r].seq = secuencia + 1
          /\ tx[r].seq < 10 ^ OemWidth => Len(oem_code[r]) = OemWidth
          /\ tx[r].seq >= 10 ^ OemWidth =>
                (Len(oem_code[r]) > OemWidth /\ oem_code[r][1] # "0")
          /\ tx[r].seq = 1 =>
                oem_code[r] = <<"0", "0", "0", "0", "0", "0", "0", "1">>
          /\ \A m \in FormatInputs :
                m + 1 # tx[r].seq => FormatOem(m + 1) # oem_code[r]

\* generate_oem has returned a code of 9 characters
C17_Witness ==
    \E r \in Slots : pc[r] = "insert" /\ Len(oem_code[r]) = 9

====
